---- MODULE Spec2Model ----
(***************************************************************************)
(* luna-usb-serial-acm: a migen/LiteX wrapper around a LUNA USB CDC-ACM    *)
(* engine that is compiled to Verilog.                                     *)
(*                                                                         *)
(* The module holds four state machines over one set of variables:         *)
(*   SpecCdc   one clock-domain-crossing bridge (tx or rx) of the wrapper, *)
(*             stepped by the two clock domains in any interleaving        *)
(*             (SpecTxPacket: the same with the application pushing the    *)
(*             packet 0x41 0x42 0x43 into the tx bridge; SpecCdcFair: the  *)
(*             packet through either bridge, both clocks stepping forever);*)
(*   SpecRst   the PHY reset controller instantiated by build_verilog.py   *)
(*             and the signals elaborate() derives from it (SpecRstFair:   *)
(*             the same with a clock that keeps ticking);                  *)
(*   SpecPhy   the pad wiring of the wrapper (Direct and ULPI variants);   *)
(*   SpecCtor  the control flow of USBSerialDevice.__init__.               *)
(* Each specification leaves the variables of the others at their idle     *)
(* values.  The library components the repository only instantiates        *)
(* (stream.ClockDomainCrossing, PHYResetController, TSTriple) are modelled *)
(* from their contract in spec.md; the wiring, the parameters and the      *)
(* control flow are modelled from the repository's source.                 *)
(***************************************************************************)
EXTENDS Integers, Sequences, FiniteSets, TLC

VARIABLES
    \* --- CDC bridge ---
    dir,        \* which bridge this behaviour follows: "tx" or "rx"
    scenario,   \* "free": the producer pushes anything; "packet": Packet
    wptr,       \* write pointer, counts modulo 2*Depth (write domain)
    rptr,       \* read pointer, counts modulo 2*Depth (read domain)
    wsync,      \* synchronizer registers holding rptr in the write domain
    rsync,      \* synchronizer registers holding wptr in the read domain
    storage,    \* the queue's memory, Depth entries
    prod,       \* what the producer drives: valid, data, first, last
    consReady,  \* what the consumer drives: ready
    accepted,   \* history: transfers the producer saw accepted (valid /\ ready)
    delivered,  \* history: transfers the consumer saw completed (valid /\ ready)
    readyHeld,  \* history: the consumer has held ready at every step so far
    clk_edges,  \* history: the parity of the clock edges of both domains
    \* --- PHY reset controller (build_verilog.py, elaborate) ---
    phase,      \* "Resetting", "HoldOff" or "Active"
    cycles_in_reset, \* the controller's cycle counter within the phase
    rst_sync,   \* the sync domain's reset input as the next clock edge sees it
    elapsed,    \* history: clock edges since the last edge that saw rst_sync
    retriggered, \* history: the phase the last domain reset interrupted
    sync_edges, \* history: the parity of the sync clock's edges
    \* --- pads (USBSerialDevice.py, "Phy specific setup") ---
    variant,    \* "Direct" or "ULPI"
    eng_o,      \* engine outputs per bidirectional line: [o, oe]
    eng_out,    \* engine's plain outputs: pullup (Direct); stp, rst (ULPI)
    ext,        \* what the other end of the bus drives per pin, or "Z"
    ext_in,     \* what the PHY drives on the input pins nxt, dir (ULPI)
    pin,        \* the value on each bidirectional pin
    eng_i,      \* engine inputs per bidirectional line
    pads_out,   \* the output pins: pullup (Direct); stp, rst (ULPI)
    eng_in,     \* engine's plain inputs: nxt, dir (ULPI)
    \* --- USBSerialDevice.__init__ ---
    wrapper,    \* "package" (src/luna_usb_serial_acm) or "legacy" (top level)
    usb_pads,   \* the attribute names of the pads object handed in
    ident,      \* id_vendor, id_product, manufacturer_string, product_string
    pc,         \* the step the constructor runs next, "done" or "failed"
    use_ulpi_phy,    \* the constructor's local of that name
    max_packet_size, \* the constructor's local of that name
    build_kwargs,    \* the keyword arguments of the call of build(), or <<>>
    module_name,     \* the module name the Instance is made of, or "none"
    err,        \* the exception that ended the constructor, or "none"
    done,       \* the steps completed, in order
    cdc_depth,  \* the depth the two bridges were created with, or 0
    connects,   \* the connect() statements made: [master, slave] records
    bus,        \* the pad record build() bound as the engine's bus, or "none"
    inst_params \* the pad parameters collected for the Instance

cdcVars == <<dir, scenario, wptr, rptr, wsync, rsync, storage, prod, consReady,
             accepted, delivered, readyHeld, clk_edges>>

rstVars == <<phase, cycles_in_reset, rst_sync, elapsed, retriggered,
             sync_edges>>

phyVars == <<variant, eng_o, eng_out, ext, ext_in, pin, eng_i, pads_out,
             eng_in>>

ctorVars == <<wrapper, usb_pads, ident, pc, use_ulpi_phy, max_packet_size,
              build_kwargs, module_name, err, done, cdc_depth, connects, bus,
              inst_params>>

vars == <<cdcVars, rstVars, phyVars, ctorVars>>

(***************************************************************************)
(* Bounds of the model.                                                    *)
(***************************************************************************)
\* transfers one behaviour of the bridge pushes at most
MaxXfer == 3

\* clock edges of the reset controller's clock per millisecond
TicksPerMs == 2

(***************************************************************************)
(* Stream channel values.                                                  *)
(***************************************************************************)
\* payload bytes of the free runs: 0x41, 0x42
Bytes == {65, 66}

Transfers == [data : Bytes, first : BOOLEAN, last : BOOLEAN]

\* an endpoint whose valid is low; its payload lines are at their reset value
IdleXfer == [data |-> 0, first |-> FALSE, last |-> FALSE]

Xfer(e) == [data |-> e.data, first |-> e.first, last |-> e.last]

IsPrefix(s, t) == /\ Len(s) <= Len(t)
                  /\ \A i \in 1..Len(s) : s[i] = t[i]

(***************************************************************************)
(* Clock domains of the wrapper and of the two bridges.                    *)
(***************************************************************************)
stream_clockdomain == "sys"

usb_clockdomain == "usb"

Domains == {stream_clockdomain, usb_clockdomain}

Bridges == {"tx", "rx"}

\* a slip that creates rx_cdc with tx_cdc's argument order
cd_from_same_order(b) == stream_clockdomain

\* tx_cdc = ClockDomainCrossing(layout, stream_clockdomain, usb_clockdomain)
\* rx_cdc = ClockDomainCrossing(layout, usb_clockdomain, stream_clockdomain)
cd_from(b) == IF b = "tx" THEN stream_clockdomain ELSE usb_clockdomain

\* a slip that creates rx_cdc with tx_cdc's second argument
cd_to_same_order(b) == usb_clockdomain

cd_to(b) == IF b = "tx" THEN usb_clockdomain ELSE stream_clockdomain

\* the application drives self.sink and reads self.source in the stream
\* domain; the engine instance is clocked by ClockSignal(usb_clockdomain)
producer_domain(b) == IF b = "tx" THEN stream_clockdomain ELSE usb_clockdomain

consumer_domain(b) == IF b = "tx" THEN usb_clockdomain ELSE stream_clockdomain

(***************************************************************************)
(* Wiring of the stream endpoints.  p is what the producer drives, s what  *)
(* the bridge's read side offers.                                          *)
(***************************************************************************)
\* tx: self.usb_tx.connect(tx_cdc.sink);  rx: o_rx__valid/first/last/payload
cdc_sink(b, p) ==
    [valid |-> p.valid, data |-> p.data, first |-> p.first, last |-> p.last]

\* a slip that leaves the producer's ready undriven by the bridge (tied high)
producer_ready_tied(b, sinkReady) == TRUE

\* the ready the producer sees: tx: connect() drives usb_tx.ready from
\* tx_cdc.sink.ready;  rx: i_rx__ready = rx_cdc.sink.ready
producer_ready(b, sinkReady) == sinkReady

\* a slip that leaves the consumer's valid unconnected (reset value 0)
consumer_port_no_valid(b, s) ==
    [valid |-> FALSE, data |-> s.data, first |-> s.first, last |-> s.last]

\* a slip that crosses the first and last wires of the engine's tx port
consumer_port_crossed(b, s) ==
    [valid |-> s.valid, data |-> s.data,
     first |-> IF b = "tx" THEN s.last ELSE s.first,
     last  |-> IF b = "tx" THEN s.first ELSE s.last]

\* tx: i_tx__valid/first/last/payload = tx_cdc.source.*, then elaborate()
\* forwards self.tx.* to usb0.tx.*;  rx: rx_cdc.source.connect(self.usb_rx)
consumer_port(b, s) ==
    [valid |-> s.valid, data |-> s.data, first |-> s.first, last |-> s.last]

\* a slip that ties the bridge's read-side ready high
cdc_source_ready_tied(b, r) == TRUE

\* tx: o_tx__ready = tx_cdc.source.ready (self.tx.ready = usb0.tx.ready);
\* rx: connect() drives rx_cdc.source.ready from usb_rx.ready
cdc_source_ready(b, r) == r

(***************************************************************************)
(* The bridge: a bounded queue whose write side runs in cd_from and whose  *)
(* read side runs in cd_to; each side sees the other side's pointer        *)
(* through a SyncStages-stage synchronizer.                                *)
(***************************************************************************)
Depth == 2

SyncStages == 2

PtrMod == 2 * Depth

\* one clock edge of a synchronizer chain: stage 1 samples the signal,
\* stage k takes what stage k-1 held
Shift(chain, sample) ==
    [k \in 1..SyncStages |-> IF k = 1 THEN sample ELSE chain[k - 1]]

\* entries in use as the write side sees them
WriteLevel == (wptr - wsync[SyncStages] + PtrMod) % PtrMod

writable == WriteLevel # Depth

readable == rptr # rsync[SyncStages]

\* entries actually in the queue
Level == (wptr - rptr + PtrMod) % PtrMod

\* the read side's output endpoint
cdc_source ==
    [valid |-> readable,
     data  |-> storage[rptr % Depth].data,
     first |-> storage[rptr % Depth].first,
     last  |-> storage[rptr % Depth].last]

\* the packet of the end-to-end scenario: 0x41 with first, 0x42, 0x43 with last
Packet ==
    << [data |-> 65, first |-> TRUE,  last |-> FALSE],
       [data |-> 66, first |-> FALSE, last |-> FALSE],
       [data |-> 67, first |-> FALSE, last |-> TRUE] >>

ProdIdle == [valid |-> FALSE, data |-> 0, first |-> FALSE, last |-> FALSE]

\* what a producer may drive next: valid low, or valid with any transfer
ProdInputs ==
    {ProdIdle} \cup
    [valid : {TRUE}, data : Bytes, first : BOOLEAN, last : BOOLEAN]

\* what the producer may drive after having had acc accepted: anything in
\* a free run; in the packet scenario valid low or the packet's next byte
ProdChoices(acc) ==
    IF scenario = "free"
      THEN ProdInputs
      ELSE {ProdIdle} \cup
           { [valid |-> TRUE, data |-> Packet[i].data,
              first |-> Packet[i].first, last |-> Packet[i].last] :
             i \in {j \in 1..Len(Packet) : j = Len(acc) + 1} }

\* the other machines at rest
RstIdle ==
    /\ phase = "Active"
    /\ cycles_in_reset = 0
    /\ rst_sync = FALSE
    /\ elapsed = 0
    /\ retriggered = "none"
    /\ sync_edges = 0

PhyIdle ==
    /\ variant = "Direct"
    /\ eng_o = <<>>
    /\ eng_out = <<>>
    /\ ext = <<>>
    /\ ext_in = <<>>
    /\ pin = <<>>
    /\ eng_i = <<>>
    /\ pads_out = <<>>
    /\ eng_in = <<>>

\* the constructor's defaults
DefaultIdent ==
    [id_vendor |-> 4617, id_product |-> 23281,
     manufacturer_string |-> "MSE Lab", product_string |-> "ULPI Device"]

CtorIdle ==
    /\ wrapper = "package"
    /\ usb_pads = {}
    /\ ident = DefaultIdent
    /\ pc = "done"
    /\ use_ulpi_phy = FALSE
    /\ max_packet_size = 0
    /\ build_kwargs = <<>>
    /\ module_name = "none"
    /\ err = "none"
    /\ done = <<>>
    /\ cdc_depth = 0
    /\ connects = {}
    /\ bus = "none"
    /\ inst_params = {}

CdcInit ==
    /\ RstIdle
    /\ PhyIdle
    /\ CtorIdle
    /\ dir \in Bridges
    /\ scenario = "free"
    /\ wptr = 0
    /\ rptr = 0
    /\ wsync = [k \in 1..SyncStages |-> 0]
    /\ rsync = [k \in 1..SyncStages |-> 0]
    /\ storage = [i \in 0..(Depth - 1) |-> IdleXfer]
    /\ prod \in ProdChoices(<<>>)
    /\ consReady \in BOOLEAN
    /\ accepted = <<>>
    /\ delivered = <<>>
    /\ readyHeld = consReady
    /\ clk_edges = 0

\* the application pushes Packet into the tx bridge
TxPacketInit ==
    /\ RstIdle
    /\ PhyIdle
    /\ CtorIdle
    /\ dir = "tx"
    /\ scenario = "packet"
    /\ wptr = 0
    /\ rptr = 0
    /\ wsync = [k \in 1..SyncStages |-> 0]
    /\ rsync = [k \in 1..SyncStages |-> 0]
    /\ storage = [i \in 0..(Depth - 1) |-> IdleXfer]
    /\ prod \in ProdChoices(<<>>)
    /\ consReady \in BOOLEAN
    /\ accepted = <<>>
    /\ delivered = <<>>
    /\ readyHeld = consReady
    /\ clk_edges = 0

\* One rising edge of clock domain d: every register of the domain updates
\* from the values present before the edge, then the logic of that domain
\* drives its outputs anew.
ClkStep(d) ==
    LET sink == cdc_sink(dir, prod)
        we   == sink.valid /\ writable
        port == consumer_port(dir, cdc_source)
        re   == readable /\ cdc_source_ready(dir, consReady)
        wAct == cd_from(dir) = d
        rAct == cd_to(dir) = d
        pAct == producer_domain(dir) = d
        cAct == consumer_domain(dir) = d
    IN  /\ wptr' = IF wAct /\ we THEN (wptr + 1) % PtrMod ELSE wptr
        /\ storage' = IF wAct /\ we
                        THEN [storage EXCEPT ![wptr % Depth] = Xfer(sink)]
                        ELSE storage
        /\ wsync' = IF wAct THEN Shift(wsync, rptr) ELSE wsync
        /\ rptr' = IF rAct /\ re THEN (rptr + 1) % PtrMod ELSE rptr
        /\ rsync' = IF rAct THEN Shift(rsync, wptr) ELSE rsync
        /\ accepted' = IF pAct /\ prod.valid /\ producer_ready(dir, writable)
                         THEN Append(accepted, Xfer(prod))
                         ELSE accepted
        /\ delivered' = IF cAct /\ port.valid /\ consReady
                          THEN Append(delivered, Xfer(port))
                          ELSE delivered
        /\ IF pAct
             THEN /\ prod' \in ProdChoices(accepted')
                  /\ prod'.valid => Len(accepted') < MaxXfer
             ELSE prod' = prod
        /\ IF cAct THEN consReady' \in BOOLEAN ELSE consReady' = consReady
        /\ readyHeld' = (readyHeld /\ consReady')
        /\ clk_edges' = 1 - clk_edges
        /\ dir' = dir
        /\ scenario' = scenario
        /\ UNCHANGED <<rstVars, phyVars, ctorVars>>

StreamClk == ClkStep(stream_clockdomain)

UsbClk == ClkStep(usb_clockdomain)

CdcNext == StreamClk \/ UsbClk

SpecCdc == CdcInit /\ [][CdcNext]_vars

SpecTxPacket == TxPacketInit /\ [][CdcNext]_vars

\* the producer of either bridge pushes Packet
PacketInit ==
    /\ RstIdle
    /\ PhyIdle
    /\ CtorIdle
    /\ dir \in Bridges
    /\ scenario = "packet"
    /\ wptr = 0
    /\ rptr = 0
    /\ wsync = [k \in 1..SyncStages |-> 0]
    /\ rsync = [k \in 1..SyncStages |-> 0]
    /\ storage = [i \in 0..(Depth - 1) |-> IdleXfer]
    /\ prod \in ProdChoices(<<>>)
    /\ consReady \in BOOLEAN
    /\ accepted = <<>>
    /\ delivered = <<>>
    /\ readyHeld = consReady
    /\ clk_edges = 0

\* both clock domains keep stepping
SpecCdcFair ==
    /\ PacketInit
    /\ [][CdcNext]_vars
    /\ WF_vars(StreamClk)
    /\ WF_vars(UsbClk)

(***************************************************************************)
(* Claims about the CDC bridges (checked under SpecCdc).                   *)
(***************************************************************************)
\* the transfers accepted and not yet delivered
Pending == Len(accepted) - Len(delivered)

\* C1: for each bridge and every interleaving of the two clock domains, the
\* transfers completed on the consumer side are at every moment a prefix of
\* the transfers accepted on the producer side, and the two sequences are
\* identical once the queue has been emptied: nothing is lost, duplicated
\* or reordered.
C1_FifoOrder ==
    /\ IsPrefix(delivered, accepted)
    /\ Level = 0 => delivered = accepted

\* C1 witness: the rx bridge has delivered MaxXfer transfers, not all alike.
C1_Witness ==
    /\ dir = "rx"
    /\ Len(delivered) = MaxXfer
    /\ delivered[1] # delivered[2]

\* C2: when the queue is actually full the producer's ready is low and
\* every accepted, undelivered transfer is still intact in the queue's
\* memory (no overwrite); when the queue is actually empty the consumer's
\* valid is low; the level never exceeds the depth.
C2_FullEmpty ==
    /\ Level <= Depth
    /\ Level = Depth => ~producer_ready(dir, writable)
    /\ Level = 0 => ~consumer_port(dir, cdc_source).valid
    /\ Pending \in 0..Depth
    /\ \A i \in 1..Pending :
          storage[(rptr + i - 1) % Depth] = accepted[Len(delivered) + i]

\* C2 witness: the queue is full again after a transfer has been
\* delivered (a memory entry is in use for the second time) while the read
\* side's synchronizer has not yet caught up with the write pointer.
C2_Witness ==
    /\ Level = Depth
    /\ ~producer_ready(dir, writable)
    /\ Len(delivered) >= 1
    /\ rsync[SyncStages] # wptr

\* C8 (checked under SpecTxPacket): on the transmit path, while the
\* application pushes the packet 0x41(first) 0x42 0x43(last), the engine's
\* tx port sees these bytes in this order with first on the same byte and
\* last on the same byte, no byte extra, and no byte missing once the
\* whole packet has been pushed and the queue is empty.
C8_TxPacket ==
    /\ IsPrefix(accepted, Packet)
    /\ IsPrefix(delivered, accepted)
    /\ \A i \in 1..Len(delivered) :
          /\ delivered[i].data = Packet[i].data
          /\ delivered[i].first = (i = 1)
          /\ delivered[i].last = (i = Len(Packet))
    /\ (accepted = Packet /\ Level = 0) => delivered = Packet

\* C8 witness: the engine's tx port has received the whole packet while
\* the engine held ready at every step.
C8_Witness ==
    /\ dir = "tx"
    /\ readyHeld
    /\ delivered = Packet

\* C9: a transfer happens at a step iff valid and ready are both true at
\* that step: the write pointer or the memory changes only at a step where
\* the producer's valid and ready are both high, the read pointer only at
\* a step where the consumer's valid and ready are both high, and the
\* queue moves exactly when the endpoint counts a transfer.
C9_TransferIffValidReady ==
    [][ /\ (wptr' # wptr \/ storage' # storage)
            => (prod.valid /\ producer_ready(dir, writable))
        /\ (rptr' # rptr)
            => (consumer_port(dir, cdc_source).valid /\ consReady)
        /\ (accepted' # accepted) <=> (wptr' # wptr)
        /\ (delivered' # delivered) <=> (rptr' # rptr)
        /\ (~prod.valid \/ ~producer_ready(dir, writable))
            => (accepted' = accepted /\ wptr' = wptr /\ storage' = storage)
        /\ (~consumer_port(dir, cdc_source).valid \/ ~consReady)
            => (delivered' = delivered /\ rptr' = rptr)
      ]_vars

\* C9 witness: valid alone on the producer side: the producer offers a
\* transfer to a full queue while the consumer's ready is low.
C9_Witness ==
    /\ prod.valid
    /\ ~producer_ready(dir, writable)
    /\ ~consReady
    /\ Len(accepted) = Depth


(***************************************************************************)
(* The PHY reset controller and what elaborate() derives from it.          *)
(*   controller = PHYResetController(reset_length=40e-3, stop_length=40e-4)*)
(***************************************************************************)
\* a slip in the exponent: 40e-5 s
stop_length_us_short == 4000 \div 10

\* reset_length=40e-3 seconds, in microseconds
reset_length_us == 40000

\* stop_length=40e-4 seconds, in microseconds
stop_length_us == 4000

\* ceil(a / b) for positive b
CeilDiv(a, b) == (a + b - 1) \div b

\* a duration in cycles of the controller's clock: ceil(length / period)
reset_length_cycles == CeilDiv(reset_length_us * TicksPerMs, 1000)

stop_length_cycles == CeilDiv(stop_length_us * TicksPerMs, 1000)

\* the history counter stops one past the time Active is first possible
ElapsedCap == reset_length_cycles + stop_length_cycles + 1

\* controller outputs
phy_reset == phase = "Resetting"

phy_stop == phase # "Active"

\* a slip in the domain name: the controller's own phy_reset is put on the
\* reset of the domain the controller runs in
sync_domain_reset_looped(rst_in) == rst_in \/ phy_reset

\* ResetSignal("sync").eq(self.rst_sync): the reset of the controller's
\* domain is the rst_sync port and nothing else
sync_domain_reset(rst_in) == rst_in

\* ResetSignal("usb").eq(controller.phy_reset)
usb_domain_reset == phy_reset

\* self.usb_holdoff.eq(controller.phy_stop)
usb_holdoff == phy_stop

\* self.usb0.connect.eq(1): "... and always connect by default"
usb0_connect == 1

\* the engine requests the connection and its clock domain is out of reset
ConnectInEffect == usb0_connect = 1 /\ ~usb_domain_reset

CdcIdle ==
    /\ dir = "tx"
    /\ scenario = "free"
    /\ wptr = 0
    /\ rptr = 0
    /\ wsync = [k \in 1..SyncStages |-> 0]
    /\ rsync = [k \in 1..SyncStages |-> 0]
    /\ storage = [i \in 0..(Depth - 1) |-> IdleXfer]
    /\ prod = ProdIdle
    /\ consReady = FALSE
    /\ accepted = <<>>
    /\ delivered = <<>>
    /\ readyHeld = FALSE
    /\ clk_edges = 0

\* power-on: the controller starts in Resetting
RstInit ==
    /\ CdcIdle
    /\ PhyIdle
    /\ CtorIdle
    /\ phase = "Resetting"
    /\ cycles_in_reset = 0
    /\ rst_sync \in BOOLEAN
    /\ elapsed = 0
    /\ retriggered = "none"
    /\ sync_edges = 0

\* One rising edge of the sync clock (clk_sync).  A domain reset seen at the
\* edge returns the controller to Resetting with its counter cleared.
SyncClk ==
    /\ rst_sync' \in BOOLEAN
    /\ sync_edges' = 1 - sync_edges
    /\ UNCHANGED <<cdcVars, phyVars, ctorVars>>
    /\ IF sync_domain_reset(rst_sync)
         THEN /\ phase' = "Resetting"
              /\ cycles_in_reset' = 0
              /\ elapsed' = 0
              /\ retriggered' = IF elapsed = 0 THEN retriggered ELSE phase
         ELSE /\ elapsed' = IF elapsed < ElapsedCap THEN elapsed + 1 ELSE elapsed
              /\ retriggered' = retriggered
              /\ CASE phase = "Resetting" ->
                       IF cycles_in_reset + 1 = reset_length_cycles
                         THEN phase' = "HoldOff" /\ cycles_in_reset' = 0
                         ELSE phase' = phase
                              /\ cycles_in_reset' = cycles_in_reset + 1
                   [] phase = "HoldOff" ->
                       IF cycles_in_reset + 1 = stop_length_cycles
                         THEN phase' = "Active" /\ cycles_in_reset' = 0
                         ELSE phase' = phase
                              /\ cycles_in_reset' = cycles_in_reset + 1
                   [] OTHER ->
                       phase' = "Active" /\ cycles_in_reset' = 0

RstNext == SyncClk

SpecRst == RstInit /\ [][RstNext]_vars

\* the same with a sync clock that keeps ticking
SpecRstFair == SpecRst /\ WF_vars(SyncClk)

(***************************************************************************)
(* Claims about the PHY reset controller (checked under SpecRst).          *)
(***************************************************************************)
\* C3: the controller is never in Active before the full Resetting
\* duration (40 ms) and then the full HoldOff duration (4 ms) have elapsed
\* since the most recent domain reset, and never in HoldOff before the
\* 40 ms have elapsed, whenever and however often the reset is asserted.
C3_ActiveNotEarly ==
    /\ phase = "Active" => elapsed >= (40 + 4) * TicksPerMs
    /\ phase = "HoldOff" => elapsed >= 40 * TicksPerMs

\* C3 witness: Active is reached exactly 44 ms after a domain reset that
\* interrupted the HoldOff phase.
C3_Witness ==
    /\ phase = "Active"
    /\ elapsed = (40 + 4) * TicksPerMs
    /\ retriggered = "HoldOff"

\* C4: while the controller is in HoldOff (its stop output is high) the
\* engine's connect request is not in effect.
C4_HoldOffBlocksConnect ==
    (phase = "HoldOff" /\ usb_holdoff) => ~ConnectInEffect

(***************************************************************************)
(* The pads.  Direct: d_p and d_n through one tri-state each, pullup.      *)
(* ULPI: data through a tri-state, clk, stp, nxt, dir, and the active-low  *)
(* reset pin.                                                              *)
(***************************************************************************)
Variants == {"Direct", "ULPI"}

\* the engine's bidirectional pad-record lines per variant
LinesOf(v) == IF v = "Direct" THEN {"d_p", "d_n"} ELSE {"data"}

\* levels a line carries: one bit, or a byte of the ULPI data bus; "Z" is
\* a released wire and "X" a wire two drivers fight over
LineVals(l) == IF l = "data" THEN {"00", "FF"} ELSE {"0", "1"}

AllLevels == {"0", "1", "00", "FF"}

\* the engine's plain outputs and inputs per variant
OutsOf(v) == IF v = "Direct" THEN {"pullup"} ELSE {"stp", "rst"}

InsOf(v) == IF v = "Direct" THEN {} ELSE {"nxt", "dir"}

\* a slip that attaches each Direct tri-state to the other line's pad
tristate_pad_crossed(t) ==
    CASE t = "dp" -> "d_n"
      [] t = "dn" -> "d_p"
      [] OTHER    -> "data"

\* dp.get_tristate(usb_pads.d_p), dn.get_tristate(usb_pads.d_n),
\* ulpi_data.get_tristate(usb_pads.data)
tristate_pad(t) ==
    CASE t = "dp" -> "d_p"
      [] t = "dn" -> "d_n"
      [] OTHER    -> "data"

\* o_raw_pads__d_p__o/oe/i = dp.o/oe/i, o_raw_pads__d_n__o/oe/i = dn.o/oe/i,
\* o_ulpi_pads__data__o/oe/i = ulpi_data.o/oe/i
engine_port_triple(l) ==
    CASE l = "d_p" -> "dp"
      [] l = "d_n" -> "dn"
      [] OTHER     -> "ulpi_data"

\* the pad a line of the engine ends on
PadOfLine(l) == tristate_pad(engine_port_triple(l))

\* a slip that drives the pin with the internal reset itself
usb_pads_rst_plain(reset) == reset

\* self.comb += usb_pads.rst.eq(~reset), reset being one bit wide
usb_pads_rst_comb(reset) == 1 - reset

\* o_raw_pads__pullup__o = usb_pads.pullup, o_ulpi_pads__stp__o =
\* usb_pads.stp, o_ulpi_pads__rst__o = reset and usb_pads.rst = ~reset
pad_output(name, value) ==
    IF name = "rst" THEN usb_pads_rst_comb(value) ELSE value

\* a tri-state driver: drives o when oe, releases the line otherwise
TriDrive(d) == IF d.oe THEN d.o ELSE "Z"

\* two drivers on one wire
WireLevel(a, b) ==
    CASE a = "Z" -> b
      [] b = "Z" -> a
      [] a = b   -> a
      [] OTHER   -> "X"

\* what an input reads from a wire: the level, or either level when the
\* wire floats or is fought over
Sample(l, w) == IF w \in {"Z", "X"} THEN LineVals(l) ELSE {w}

\* the combinational part, evaluated after any change of a driver
Settle(o, x) ==
    /\ pin' = [q \in {PadOfLine(l) : l \in DOMAIN o} |->
                 LET l == CHOOSE m \in DOMAIN o : PadOfLine(m) = q
                 IN  WireLevel(TriDrive(o[l]), x[q])]
    /\ eng_i' \in [DOMAIN o -> AllLevels]
    /\ \A l \in DOMAIN o : eng_i'[l] \in Sample(l, pin'[PadOfLine(l)])

EngOutputs(v) ==
    [LinesOf(v) -> [o : AllLevels, oe : BOOLEAN]]

PhyInit ==
    /\ CdcIdle
    /\ RstIdle
    /\ CtorIdle
    /\ variant \in Variants
    /\ eng_o \in EngOutputs(variant)
    /\ \A l \in LinesOf(variant) :
          eng_o[l].o = (IF l = "data" THEN "00" ELSE "0") /\ ~eng_o[l].oe
    /\ eng_out = [n \in OutsOf(variant) |-> 0]
    /\ ext = [l \in LinesOf(variant) |-> "Z"]
    /\ ext_in = [n \in InsOf(variant) |-> 0]
    /\ pin = [l \in LinesOf(variant) |-> "Z"]
    /\ eng_i \in [LinesOf(variant) -> AllLevels]
    /\ \A l \in LinesOf(variant) : eng_i[l] \in LineVals(l)
    /\ pads_out = [n \in OutsOf(variant) |-> pad_output(n, 0)]
    /\ eng_in = [n \in InsOf(variant) |-> 0]

\* the engine changes its outputs
EngineDrive ==
    /\ eng_o' \in EngOutputs(variant)
    /\ \A l \in LinesOf(variant) : eng_o'[l].o \in LineVals(l)
    /\ eng_out' \in [OutsOf(variant) -> {0, 1}]
    /\ pads_out' = [n \in OutsOf(variant) |-> pad_output(n, eng_out'[n])]
    /\ Settle(eng_o', ext)
    /\ UNCHANGED <<variant, ext, ext_in, eng_in, cdcVars, rstVars, ctorVars>>

\* the other end of the bus changes what it drives
BusDrive ==
    /\ ext' \in [LinesOf(variant) -> AllLevels \cup {"Z"}]
    /\ \A l \in LinesOf(variant) : ext'[l] \in LineVals(l) \cup {"Z"}
    /\ ext_in' \in [InsOf(variant) -> {0, 1}]
    \* i_ulpi_pads__nxt__i = usb_pads.nxt, i_ulpi_pads__dir__i = usb_pads.dir
    /\ eng_in' = ext_in'
    /\ Settle(eng_o, ext')
    /\ UNCHANGED <<variant, eng_o, eng_out, pads_out, cdcVars, rstVars,
                   ctorVars>>

PhyNext == EngineDrive \/ BusDrive

SpecPhy == PhyInit /\ [][PhyNext]_vars

(***************************************************************************)
(* Claims about the pads (checked under SpecPhy).                          *)
(***************************************************************************)
\* C5: in the ULPI variant the reset pin is at every evaluation point the
\* inverse of the internal reset the engine outputs: low exactly when the
\* internal reset is high.
C5_UlpiResetInverted ==
    variant = "ULPI" =>
        /\ pads_out["rst"] = 1 - eng_out["rst"]
        /\ (pads_out["rst"] = 0) <=> (eng_out["rst"] = 1)

\* C5 witness: the engine asserts its reset and the pin is low.
C5_Witness ==
    /\ variant = "ULPI"
    /\ eng_out["rst"] = 1
    /\ pads_out["rst"] = 0

UlpiPins == {"clk", "data", "stp", "nxt", "dir", "rst"}

DirectPins == {"d_p", "d_n", "pullup"}

\* the pin sets the constructor is tried on
PinSets ==
    { UlpiPins,
      DirectPins,
      {},
      {"tx", "rx"},
      {"clk"},
      {"d_p", "d_n"},
      {"clk"} \cup DirectPins,
      UlpiPins \cup DirectPins }

\* the identities the constructor is tried on (0x1209/0x1d50, 0x5af1/0x0001)
Idents ==
    [id_vendor : {4617, 7504}, id_product : {23281, 1},
     manufacturer_string : {"MSE Lab", "ACME"},
     product_string : {"ULPI Device", "Serial"}]

\* a pin set that has the signals of neither variant
Neither(pads) == ~(UlpiPins \subseteq pads) /\ ~(DirectPins \subseteq pads)

\* the statements of each constructor in the order they run
StepsOf(w) ==
    IF w = "package"
      THEN <<"resolve", "build", "add_source", "endpoints", "cdc", "params",
             "phy", "instance">>
      ELSE <<"add_source", "triples", "endpoints", "cdc", "phy", "params",
             "instance">>

\* the step after the ones completed
StepAfter(w, d) ==
    IF Len(d) < Len(StepsOf(w)) THEN StepsOf(w)[Len(d) + 1] ELSE "done"

\* use_ulpi_phy = hasattr(usb_pads, "clk")
resolve_use_ulpi_phy(pads) == "clk" \in pads

\* a slip that exchanges the two packet sizes
resolve_max_packet_size_swapped(ulpi) == IF ulpi THEN 64 ELSE 512

\* max_packet_size = 512 if use_ulpi_phy else 64
resolve_max_packet_size(ulpi) == IF ulpi THEN 512 ELSE 64

\* the keyword arguments of the call build(ulpi=..., max_packet_size=..., ...)
build_call(ulpi, mps, id) ==
    [ulpi |-> ulpi, max_packet_size |-> mps,
     idVendor |-> id.id_vendor, idProduct |-> id.id_product,
     manufacturer_string |-> id.manufacturer_string,
     product_string |-> id.product_string]

\* the parameters def build(...) declares
build_params ==
    {"idVendor", "idProduct", "manufacturer_string", "product_string", "ulpi"}

\* name = 'LunaUSBSerialDevice_ULPI' if ulpi else 'LunaUSBSerialDevice_RAW'
build_name(ulpi) ==
    IF ulpi THEN "LunaUSBSerialDevice_ULPI" ELSE "LunaUSBSerialDevice_RAW"

\* the attributes of usb_pads a step reads
pads_read(w, step, ulpi) ==
    CASE w = "legacy" /\ step = "phy"    -> {"d_p", "d_n"}
      [] w = "legacy" /\ step = "params" -> {"pullup"}
      [] w = "package" /\ step = "phy" ->
            IF ulpi THEN {"rst", "data", "clk", "stp", "nxt", "dir"}
                    ELSE {"d_p", "d_n", "pullup"}
      [] OTHER -> {}

\* bus = ulpi_pads if ulpi else raw_pads
build_bus(ulpi) == IF ulpi THEN "ulpi_pads" ELSE "raw_pads"

\* the depth argument of the two stream.ClockDomainCrossing(...) calls:
\* neither wrapper passes one
cdc_depth_arg(w) == "None"

\* the depth of a bridge created with that argument: the library's default
\* (the model's Depth) when none is passed
cdc_depth_of(arg) == IF arg = "None" THEN Depth ELSE arg

\* a.connect(b) makes a the master: a's valid and payload drive b, b's ready
\* drives a.  The connect statements in self.comb of each wrapper:
connect_stmts(w) ==
    IF w = "package"
      THEN { [master |-> "usb_tx", slave |-> "tx_cdc.sink"],
             [master |-> "rx_cdc.source", slave |-> "usb_rx"] }
      ELSE { [master |-> "tx_cdc.sink", slave |-> "usb_tx"],
             [master |-> "usb_rx", slave |-> "rx_cdc.source"] }

\* the pad parameters of each variant's pad record
RawPadParams ==
    {"o_raw_pads__d_p__o", "o_raw_pads__d_p__oe", "i_raw_pads__d_p__i",
     "o_raw_pads__d_n__o", "o_raw_pads__d_n__oe", "i_raw_pads__d_n__i",
     "o_raw_pads__pullup__o"}

UlpiPadParams ==
    {"o_ulpi_pads__data__o", "o_ulpi_pads__data__oe", "i_ulpi_pads__data__i",
     "o_ulpi_pads__clk__o", "o_ulpi_pads__stp__o", "i_ulpi_pads__nxt__i",
     "i_ulpi_pads__dir__i", "o_ulpi_pads__rst__o"}

LegacyPadParams ==
    {"o_raw_usb__d_p__o", "o_raw_usb__d_p__oe", "i_raw_usb__d_p__i",
     "o_raw_usb__d_n__o", "o_raw_usb__d_n__oe", "i_raw_usb__d_n__i",
     "o_raw_usb__pullup__o"}

\* the pad parameters a step adds to self.params
pad_params(w, step, ulpi) ==
    CASE w = "legacy" /\ step = "params" -> LegacyPadParams
      [] w = "package" /\ step = "phy" ->
            IF ulpi THEN UlpiPadParams ELSE RawPadParams
      [] OTHER -> {}

CtorInit ==
    /\ CdcIdle
    /\ RstIdle
    /\ PhyIdle
    /\ wrapper \in {"package", "legacy"}
    /\ usb_pads \in PinSets
    /\ ident \in Idents
    \* the legacy constructor takes no identity
    /\ wrapper = "legacy" => ident = DefaultIdent
    /\ pc = StepsOf(wrapper)[1]
    /\ use_ulpi_phy = FALSE
    /\ max_packet_size = 0
    /\ build_kwargs = <<>>
    /\ module_name = "none"
    /\ err = "none"
    /\ done = <<>>
    /\ cdc_depth = 0
    /\ connects = {}
    /\ bus = "none"
    /\ inst_params = {}

\* a step completes
Advance(step) ==
    /\ done' = Append(done, step)
    /\ pc' = StepAfter(wrapper, done')
    /\ err' = err

\* a step raises
Raise(e) ==
    /\ done' = done
    /\ pc' = "failed"
    /\ err' = e

\* a step that reads attributes of usb_pads: AttributeError on a missing one
PadStep(step) ==
    IF pads_read(wrapper, step, use_ulpi_phy) \subseteq usb_pads
      THEN /\ inst_params' =
                 inst_params \cup pad_params(wrapper, step, use_ulpi_phy)
           /\ Advance(step)
      ELSE /\ inst_params' = inst_params
           /\ Raise("AttributeError")

Resolve ==
    /\ pc = "resolve"
    /\ use_ulpi_phy' = resolve_use_ulpi_phy(usb_pads)
    /\ max_packet_size' = resolve_max_packet_size(use_ulpi_phy')
    /\ Advance("resolve")
    /\ UNCHANGED <<wrapper, usb_pads, ident, build_kwargs, module_name,
                   cdc_depth, connects, bus, inst_params,
                   cdcVars, rstVars, phyVars>>

\* the call of build(): a keyword build() does not declare is a TypeError
\* raised before its body runs
Build ==
    /\ pc = "build"
    /\ build_kwargs' = build_call(use_ulpi_phy, max_packet_size, ident)
    /\ IF DOMAIN build_kwargs' \subseteq build_params
         THEN /\ module_name' = build_name(build_kwargs'.ulpi)
              /\ bus' = build_bus(build_kwargs'.ulpi)
              /\ Advance("build")
         ELSE /\ module_name' = module_name
              /\ bus' = bus
              /\ Raise("TypeError")
    /\ UNCHANGED <<wrapper, usb_pads, ident, use_ulpi_phy, max_packet_size,
                   cdc_depth, connects, inst_params,
                   cdcVars, rstVars, phyVars>>

\* platform.add_source(...)
AddSource ==
    /\ pc = "add_source"
    /\ Advance("add_source")
    /\ UNCHANGED <<wrapper, usb_pads, ident, use_ulpi_phy, max_packet_size,
                   build_kwargs, module_name, cdc_depth, connects, bus,
                   inst_params, cdcVars, rstVars, phyVars>>

\* legacy: dp = TSTriple(1); dn = TSTriple(1)
CreateTriples ==
    /\ pc = "triples"
    /\ Advance("triples")
    /\ UNCHANGED <<wrapper, usb_pads, ident, use_ulpi_phy, max_packet_size,
                   build_kwargs, module_name, cdc_depth, connects, bus,
                   inst_params, cdcVars, rstVars, phyVars>>

\* self.sink = self.usb_tx = stream.Endpoint(...); self.source = ...
Endpoints ==
    /\ pc = "endpoints"
    /\ Advance("endpoints")
    /\ UNCHANGED <<wrapper, usb_pads, ident, use_ulpi_phy, max_packet_size,
                   build_kwargs, module_name, cdc_depth, connects, bus,
                   inst_params, cdcVars, rstVars, phyVars>>

\* tx_cdc, rx_cdc = stream.ClockDomainCrossing(...); submodules; connect
CreateCdc ==
    /\ pc = "cdc"
    /\ cdc_depth' = cdc_depth_of(cdc_depth_arg(wrapper))
    /\ connects' = connect_stmts(wrapper)
    /\ Advance("cdc")
    /\ UNCHANGED <<wrapper, usb_pads, ident, use_ulpi_phy, max_packet_size,
                   build_kwargs, module_name, bus, inst_params,
                   cdcVars, rstVars, phyVars>>

\* self.params = dict(...)
Params ==
    /\ pc = "params"
    /\ PadStep("params")
    /\ UNCHANGED <<wrapper, usb_pads, ident, use_ulpi_phy, max_packet_size,
                   build_kwargs, module_name, cdc_depth, connects, bus,
                   cdcVars, rstVars, phyVars>>

\* the tri-states and the pad parameters
PhySetup ==
    /\ pc = "phy"
    /\ PadStep("phy")
    /\ UNCHANGED <<wrapper, usb_pads, ident, use_ulpi_phy, max_packet_size,
                   build_kwargs, module_name, cdc_depth, connects, bus,
                   cdcVars, rstVars, phyVars>>

\* self.specials += Instance(module_name, **self.params)
MakeInstance ==
    /\ pc = "instance"
    /\ module_name' = IF wrapper = "legacy" THEN "LunaUSBSerialDevice"
                                             ELSE module_name
    /\ Advance("instance")
    /\ UNCHANGED <<wrapper, usb_pads, ident, use_ulpi_phy, max_packet_size,
                   build_kwargs, cdc_depth, connects, bus, inst_params,
                   cdcVars, rstVars, phyVars>>

CtorNext ==
    \/ Resolve
    \/ Build
    \/ AddSource
    \/ CreateTriples
    \/ Endpoints
    \/ CreateCdc
    \/ Params
    \/ PhySetup
    \/ MakeInstance

SpecCtor == CtorInit /\ [][CtorNext]_vars

(***************************************************************************)
(* Claims about the constructor (checked under SpecCtor).                  *)
(***************************************************************************)
\* the steps completed, as a set
Done == {done[i] : i \in 1..Len(done)}

\* C6: the configuration resolution is a function of the variant and the
\* identity alone: max_packet_size is 64 for Direct and 512 for ULPI and
\* nothing else, and the call of build() carries this value, the variant
\* and the four identity fields unchanged.
C6_Resolver ==
    (wrapper = "package" /\ "resolve" \in Done) =>
        /\ use_ulpi_phy = ("clk" \in usb_pads)
        /\ max_packet_size \in {64, 512}
        /\ (max_packet_size = 512) <=> use_ulpi_phy
        /\ (max_packet_size = 64) <=> ~use_ulpi_phy
        /\ build_kwargs # <<>> =>
              /\ build_kwargs.ulpi = use_ulpi_phy
              /\ build_kwargs.max_packet_size = max_packet_size
              /\ build_kwargs.idVendor = ident.id_vendor
              /\ build_kwargs.idProduct = ident.id_product
              /\ build_kwargs.manufacturer_string = ident.manufacturer_string
              /\ build_kwargs.product_string = ident.product_string

\* C6 witness: build() has been called for a ULPI pin set with 512 and an
\* identity that differs from the defaults in every field.
C6_Witness ==
    /\ wrapper = "package"
    /\ usb_pads = UlpiPins
    /\ build_kwargs # <<>>
    /\ build_kwargs.max_packet_size = 512
    /\ build_kwargs.idVendor = 7504
    /\ build_kwargs.idProduct = 1
    /\ build_kwargs.manufacturer_string = "ACME"
    /\ build_kwargs.product_string = "Serial"

\* C7: constructing the package's top-level module with a pin set that has
\* the signals of neither variant ends in a configuration error, raised
\* before build(), add_source, the CDC bridges or a tri-state have run.
C7_NeitherIsConfigError ==
    (wrapper = "package" /\ Neither(usb_pads) /\ pc \in {"done", "failed"}) =>
        /\ err = "ConfigurationError"
        /\ Done \cap {"build", "add_source", "endpoints", "cdc", "params",
                       "phy", "instance"} = {}

\* C11: each bridge the top-level module creates has a queue depth of at
\* least 2 that is at least the variant's max_packet_size (64 entries for
\* Direct, 512 for ULPI; the legacy wrapper is Direct only), so that one
\* complete max-size packet fits while the consumer holds ready low.
C11_DepthHoldsPacket ==
    "cdc" \in Done =>
        /\ cdc_depth >= 2
        /\ cdc_depth >= (IF wrapper = "package" /\ "clk" \in usb_pads
                           THEN 512 ELSE 64)

\* a pin set that has clk together with a Direct pin, or clk without the
\* rest of the ULPI pins
Ambiguous(pads) ==
    /\ "clk" \in pads
    /\ \/ pads \cap DirectPins # {}
       \/ ~(UlpiPins \subseteq pads)

\* C12: constructing the package's top-level module with an ambiguous pin
\* set is rejected with a configuration error before build() is called for
\* either variant; it is never resolved to one of the two variants.
C12_AmbiguousRejected ==
    (wrapper = "package" /\ Ambiguous(usb_pads)) =>
        /\ build_kwargs = <<>>
        /\ pc # "done"
        /\ pc = "failed" => err = "ConfigurationError"

\* a pin set that is exactly the pins of one variant
WellFormed(pads) == pads \in {UlpiPins, DirectPins}

\* C14: for each of the two variants, constructing the package's top-level
\* module with a well-formed pin set of that variant raises nothing, and
\* build() declares every keyword the wrapper hands to it (ulpi,
\* max_packet_size, idVendor, idProduct, manufacturer_string,
\* product_string).
C14_WellFormedBuilds ==
    (wrapper = "package" /\ WellFormed(usb_pads)) =>
        /\ err = "none"
        /\ pc # "failed"
        /\ build_kwargs # <<>> => DOMAIN build_kwargs \subseteq build_params

\* the endpoints that produce data: the application-facing sink (usb_tx)
\* towards the tx bridge, the rx bridge's read side towards the
\* application-facing source (usb_rx)
Producers == {"usb_tx", "rx_cdc.source"}

\* C15: in both wrappers the handshake is wired in the data-flow direction:
\* usb_tx is the master of the tx bridge's write side and the rx bridge's
\* read side is the master of usb_rx; no endpoint has its valid driven by
\* its own consumer.
C15_DataFlowWiring ==
    "cdc" \in Done =>
        /\ connects # {}
        /\ \A c \in connects :
              c.master \in Producers /\ c.slave \notin Producers

PhaseStep ==
    \/ phase' = phase
    \/ ~rst_sync /\ phase = "Resetting" /\ phase' = "HoldOff"
    \/ ~rst_sync /\ phase = "HoldOff" /\ phase' = "Active"
    \/ rst_sync /\ phase' = "Resetting"

\* C13: the controller passes through its phases only in the order
\* Resetting, HoldOff, Active: a phase is never skipped and the controller
\* never moves backwards unless the clock edge sees the domain reset; once
\* Active it stays Active until such an edge; and if the clock keeps
\* ticking and from some point on no reset occurs, it reaches Active and
\* stays there.
C13_PhaseOrder ==
    /\ [][PhaseStep]_vars
    /\ <>[](~rst_sync) => <>[](phase = "Active")

\* C13 witness: the controller is Active again after a domain reset that
\* interrupted the Active phase, having gone through the whole order twice.
C13_Witness ==
    /\ phase = "Active"
    /\ retriggered = "Active"
    /\ ~rst_sync

(***************************************************************************)
(* The consumer side of a bridge over time (SpecCdc, SpecCdcFair).         *)
(***************************************************************************)
\* what the consumer of the bridge sees offered
OfferedPort == consumer_port(dir, cdc_source)

\* C17 (checked under SpecCdc): on the consumer side of each bridge, once
\* valid is asserted for a transfer it stays asserted with the same
\* payload, first and last over every step of either clock domain that
\* does not complete the transfer (valid and ready at a consumer step);
\* bytes the producer gets accepted meanwhile never withdraw or change it.
C17_OfferStable ==
    [][ (OfferedPort.valid /\ delivered' = delivered)
            => /\ OfferedPort'.valid
               /\ Xfer(OfferedPort') = Xfer(OfferedPort) ]_vars

\* C17 witness: a transfer is on offer to a consumer that is not ready,
\* one transfer has been delivered before it, and the producer has since
\* filled the queue with a byte the read side has not yet seen arrive.
C17_Witness ==
    /\ OfferedPort.valid
    /\ ~consReady
    /\ Len(delivered) >= 1
    /\ Level = Depth
    /\ rsync[1] # wptr

\* C18 (checked under SpecCdcFair): provided both clock domains keep
\* stepping and the consumer asserts ready infinitely often, every transfer
\* accepted on the producer side is eventually delivered on the consumer
\* side, and a bridge that refuses the producer eventually accepts again:
\* a stale synchronized pointer never leaves it stuck full or stuck empty.
C18_Delivery ==
    []<>consReady =>
        /\ \A n \in 1..MaxXfer :
              (Len(accepted) >= n) ~> (Len(delivered) >= n)
        /\ (~producer_ready(dir, writable)) ~> producer_ready(dir, writable)

\* C18 witness: the producer holds valid and is refused although the
\* consumer has already drained an entry: the write side still sees the
\* read pointer's old value.
C18_Witness ==
    /\ scenario = "packet"
    /\ prod.valid
    /\ ~producer_ready(dir, writable)
    /\ Len(delivered) >= 1
    /\ Level < Depth

====
